---- MODULE Spec2Model ----
(***************************************************************************)
(* Model of researcheraivn/kltn:                                           *)
(*   - utils/dist_utils.py  all_gather_list: every worker pickles its data *)
(*     into its own slot of a shared-size byte buffer, the buffers are     *)
(*     summed by all_reduce, and every worker unpickles every slot;        *)
(*   - generate_stage1.py   post_process: generated text -> term ids;      *)
(*   - generate_stage1.py   main/validate: every process evaluates its     *)
(*     share of the dev set and writes pred_stage1_{mode}_{i}.json.        *)
(* Three specifications share the module: Spec (all_gather_list),          *)
(* SpecPP (post_process) and SpecMain (main's loop).                       *)
(***************************************************************************)
EXTENDS Integers, Sequences, FiniteSets, TLC

VARIABLES
    \* ---- all_gather_list (dist_utils.py) ----
    max_size,     \* the max_size argument of the current round of calls
    data,         \* data[r]: the object worker r passes in the current round
    pc,           \* pc[r]: where worker r is inside all_gather_list
    buffer,       \* buffer[r]: all_gather_list._buffer of worker r (<<>>: no attribute yet)
    cpu_buffer,   \* cpu_buffer[r]: all_gather_list._cpu_buffer of worker r
    result,       \* result[r]: the list worker r returned
    \* ---- post_process (generate_stage1.py) ----
    pp_pc,        \* "loop" while iterating over predicts, "returned" after the return
    pp_n,         \* number of elements of predicts handled so far
    predict,      \* the element of predicts the last loop iteration handled
    generated_term_id_list,  \* the local of that name in the last loop iteration
    predict_ids,  \* the list post_process builds
    \* ---- main / validate (generate_stage1.py) ----
    m_world,      \* number of processes (1 when not distributed)
    m_dist,       \* torch.distributed.is_initialized()
    dataset,      \* the dev dataset: a sequence of examples
    m_pc,         \* m_pc[p]: position of process p in main's loop body
    m_i,          \* m_i[p]: loop variable i of process p
    m_predicts,   \* m_predicts[p]: what validate() returned
    m_ids,        \* m_ids[p]: what post_process returned
    files         \* files[i]: content of pred_stage1_{mode}_{i}.json (NoFile: absent)

gvars == <<max_size, data, pc, buffer, cpu_buffer, result>>
pvars == <<pp_pc, pp_n, predict, generated_term_id_list, predict_ids>>
mvars == <<m_world, m_dist, dataset, m_pc, m_i, m_predicts, m_ids, files>>
vars == <<gvars, pvars, mvars>>

-----------------------------------------------------------------------------
(* Bounds of the model *)

\* world size of the process group
NumWorkers == 2
\* longest payload of a data object handed to all_gather_list
MaxDataLen == 1

-----------------------------------------------------------------------------
(* Python helpers *)

Min(a, b) == IF a < b THEN a ELSE b

Range(s) == {s[k] : k \in 1..Len(s)}

\* s[a:b] of Python (0-based, end exclusive, clamped to the sequence)
Slice(s, a, b) == SubSeq(s, Min(a, Len(s)) + 1, Min(b, Len(s)))

\* s[a:a+Len(x)] = x  (tensor slice assignment / copy_)
SliceAssign(s, a, x) ==
    [k \in 1..Len(s) |-> IF k > a /\ k <= a + Len(x) THEN x[k - a] ELSE s[k]]

RECURSIVE Pow(_, _)
Pow(b, e) == IF e = 0 THEN 1 ELSE b * Pow(b, e - 1)

RECURSIVE SetToSeqs(_)
\* every ordering of a finite set as a sequence
SetToSeqs(S) ==
    IF S = {} THEN {<<>>}
    ELSE UNION {{<<x>> \o t : t \in SetToSeqs(S \ {x})} : x \in S}

RECURSIVE SeqsUpTo(_, _)
\* every sequence over S of length at most n
SeqsUpTo(S, n) ==
    IF n = 0 THEN {<<>>}
    ELSE LET shorter == SeqsUpTo(S, n - 1)
         IN  shorter \cup {Append(t, x) : t \in {u \in shorter : Len(u) = n - 1}, x \in S}

-----------------------------------------------------------------------------
(* all_gather_list *)

Ranks == 0..(NumWorkers - 1)

SIZE_STORAGE_BYTES == 4

\* content of a cell of torch.ByteTensor(n) that was never written
Uninit == -1

\* the byte values the payload of a data object is made of
DataBytes == {255}

\* the picklable objects handed to all_gather_list
Data == SeqsUpTo(DataBytes, MaxDataLen)

PROTO == 128
STOP == 46

\* pickle.dumps: protocol opcode, the payload, the STOP opcode
PickleDumps(d) == <<PROTO>> \o d \o <<STOP>>

\* the outcome of pickle.loads raising pickle.UnpicklingError (no payload holds -1)
UnpicklingError == <<-1>>

\* pickle.loads: the payload between the protocol opcode and the STOP opcode
PickleLoads(bs) ==
    IF Len(bs) >= 2 /\ bs[1] = PROTO /\ bs[Len(bs)] = STOP
       /\ \A k \in 2..(Len(bs) - 1) : bs[k] \in 0..255
    THEN SubSeq(bs, 2, Len(bs) - 1)
    ELSE UnpicklingError

\* n.to_bytes(SIZE_STORAGE_BYTES, byteorder='big')
ToBytes(n) ==
    [k \in 1..SIZE_STORAGE_BYTES |->
        (n \div Pow(256, SIZE_STORAGE_BYTES - k)) % 256]

RECURSIVE FromBytes(_)
\* int.from_bytes(bs, byteorder='big'); a never-written cell reads as any byte,
\* here carried through as Uninit
FromBytes(bs) ==
    IF bs = <<>> THEN 0
    ELSE IF Uninit \in Range(bs) THEN Uninit
    ELSE bs[Len(bs)] + 256 * FromBytes(SubSeq(bs, 1, Len(bs) - 1))

\* line 76: enc_size < 256 ** SIZE_STORAGE_BYTES
FitsSizeField(n) == n \div Pow(256, SIZE_STORAGE_BYTES - 1) < 256

\* the pickled length of the longest object
MaxEncSize == Len(PickleDumps([k \in 1..MaxDataLen |-> 255]))

\* the max_size arguments tried: one that the longest object just exceeds,
\* one that it just fits, one with room to spare
MaxSizeChoices ==
    {SIZE_STORAGE_BYTES + MaxEncSize + d : d \in {-1, 0, 1}}

EncSize(r) == Len(PickleDumps(data[r]))

\* the size check off by one
TooLargeOffByOne(r) == EncSize(r) + SIZE_STORAGE_BYTES >= max_size

\* line 58: enc_size + SIZE_STORAGE_BYTES > max_size
TooLarge(r) == EncSize(r) + SIZE_STORAGE_BYTES > max_size

\* lines 67-68: not hasattr(_buffer) or _buffer.numel() < buffer_size
NeedsAlloc(r, buffer_size) == Len(buffer[r]) < buffer_size

\* a start that forgets the rank
SlotStartNoRank(rank) == 0

\* line 85: start = rank * max_size
SlotStart(rank) == rank * max_size

GInit ==
    /\ max_size = 0
    /\ data = [r \in Ranks |-> <<>>]
    /\ pc = [r \in Ranks |-> "idle"]
    /\ buffer = [r \in Ranks |-> <<>>]
    /\ cpu_buffer = [r \in Ranks |-> <<>>]
    /\ result = [r \in Ranks |-> <<>>]

Finished(r) == pc[r] \in {"idle", "returned", "ValueError", "AssertionError", "Exception"}

\* every worker calls all_gather_list(data[r], max_size=ms): the callers enter together
Call ==
    /\ \A r \in Ranks : Finished(r)
    /\ \E ms \in MaxSizeChoices, ds \in [Ranks -> Data] :
        /\ max_size' = ms
        /\ data' = ds
    /\ pc' = [r \in Ranks |-> "called"]
    /\ result' = [r \in Ranks |-> <<>>]
    /\ UNCHANGED <<buffer, cpu_buffer>>
    /\ UNCHANGED <<pvars, mvars>>

\* lines 53-87 on worker r: encode, check the size, (re)allocate and zero the
\* cached buffers, write size and payload into the worker's own slot
Pack(r) ==
    /\ pc[r] = "called"
    /\ LET enc == PickleDumps(data[r])
           enc_size == Len(enc)
           buffer_size == max_size * NumWorkers
           alloc == NeedsAlloc(r, buffer_size)
           cpu0 == IF alloc THEN [k \in 1..max_size |-> Uninit] ELSE cpu_buffer[r]
           zeroed == [k \in 1..(IF alloc THEN buffer_size ELSE Len(buffer[r])) |-> 0]
           size_bytes == ToBytes(enc_size)
           cpu1 == SliceAssign(cpu0, 0, size_bytes)
           cpu2 == SliceAssign(cpu1, SIZE_STORAGE_BYTES, enc)
           start == SlotStart(r)
           size == enc_size + SIZE_STORAGE_BYTES
       IN  IF TooLarge(r)
           THEN /\ pc' = [pc EXCEPT ![r] = "ValueError"]
                /\ UNCHANGED <<buffer, cpu_buffer>>
           ELSE IF ~FitsSizeField(enc_size)
           THEN /\ pc' = [pc EXCEPT ![r] = "AssertionError"]
                /\ buffer' = [buffer EXCEPT ![r] = zeroed]
                /\ cpu_buffer' = [cpu_buffer EXCEPT ![r] = cpu0]
           ELSE /\ pc' = [pc EXCEPT ![r] = "all_reduce"]
                /\ cpu_buffer' = [cpu_buffer EXCEPT ![r] = cpu2]
                /\ buffer' = [buffer EXCEPT ![r] =
                                SliceAssign(zeroed, start, Slice(cpu2, 0, size))]
    /\ UNCHANGED <<max_size, data, result>>
    /\ UNCHANGED <<pvars, mvars>>

\* sum of one cell over the workers, as uint8
ReduceCell(k) ==
    LET RECURSIVE Sum(_)
        Sum(r) == IF r = NumWorkers THEN 0 ELSE buffer[r][k] + Sum(r + 1)
    IN  IF \E r \in Ranks : buffer[r][k] = Uninit THEN Uninit ELSE Sum(0) % 256

\* line 89: dist.all_reduce(buffer): completes once every worker of the group
\* has entered it; every worker's buffer then holds the elementwise sum
AllReduce ==
    /\ \A r \in Ranks : pc[r] = "all_reduce"
    /\ \A r \in Ranks : Len(buffer[r]) = Len(buffer[0])
    /\ buffer' = [r \in Ranks |-> [k \in 1..Len(buffer[0]) |-> ReduceCell(k)]]
    /\ pc' = [r \in Ranks |-> "reduced"]
    /\ UNCHANGED <<max_size, data, cpu_buffer, result>>
    /\ UNCHANGED <<pvars, mvars>>

\* lines 94-100 for slot i: the decoded object, <<>> wrapped, or nothing for size 0
UnpackSlot(buf, i) ==
    LET out_buffer == Slice(buf, i * max_size, (i + 1) * max_size)
        size == FromBytes(Slice(out_buffer, 0, SIZE_STORAGE_BYTES))
    IN  IF size > 0
        THEN <<PickleLoads(Slice(out_buffer, SIZE_STORAGE_BYTES, size + SIZE_STORAGE_BYTES))>>
        ELSE IF size = Uninit THEN <<UnpicklingError>>
        ELSE <<>>

RECURSIVE UnpackFrom(_, _)
\* lines 92-101: the loop over range(world_size)
UnpackFrom(buf, i) ==
    IF i = NumWorkers THEN <<>> ELSE UnpackSlot(buf, i) \o UnpackFrom(buf, i + 1)

\* lines 91-109 on worker r
Unpack(r) ==
    /\ pc[r] = "reduced"
    /\ LET res == UnpackFrom(buffer[r], 0)
       IN  IF UnpicklingError \in Range(res)
           THEN /\ pc' = [pc EXCEPT ![r] = "Exception"]
                /\ UNCHANGED result
           ELSE /\ pc' = [pc EXCEPT ![r] = "returned"]
                /\ result' = [result EXCEPT ![r] = res]
    /\ UNCHANGED <<max_size, data, buffer, cpu_buffer>>
    /\ UNCHANGED <<pvars, mvars>>


-----------------------------------------------------------------------------
(* post_process *)

\* longest generated text
MaxTextLen == 3
\* longest list of predictions handed to post_process
MaxPredicts == 2

\* the full-width comma U+FF0C of line 140
COMMA == ","
SPACE == " "

\* the characters generated text is made of
Chars == {"a", "b", SPACE, COMMA}

Texts == SeqsUpTo(Chars, MaxTextLen)

DialIds == {1, 2}
WindowIds == {3}

\* reader.term_ids.keys() in dictionary order: a vocabulary with a term inside
\* another term
all_terms == << <<"a">>, <<"a", "b">> >>

\* reader.term_ids[term]
term_ids(term) ==
    CASE term = <<"a">> -> 11
      [] term = <<"a", "b">> -> 12

\* the elements of predicts: (generated_text, dial_id, window_id, term_id)
Predicts == {<<t, d, w, 0>> : t \in Texts, d \in DialIds, w \in WindowIds}

RECURSIVE Split(_, _)
\* str.split(sep) for a one-character separator
Split(s, sep) ==
    IF \A k \in 1..Len(s) : s[k] # sep THEN <<s>>
    ELSE LET k == CHOOSE j \in 1..Len(s) :
                     s[j] = sep /\ \A h \in 1..(j - 1) : s[h] # sep
         IN  <<SubSeq(s, 1, k - 1)>> \o Split(SubSeq(s, k + 1, Len(s)), sep)

RECURSIVE Join(_)
\* ''.join(parts)
Join(parts) == IF parts = <<>> THEN <<>> ELSE Head(parts) \o Join(Tail(parts))

\* x in s, for strings
IsSubstring(x, s) ==
    \E a \in 0..(Len(s) - Len(x)) : SubSeq(s, a + 1, a + Len(x)) = x

\* the substring search without the exact-match test of line 143
SegmentTermsSubstringOnly(term) ==
    SelectSeq(all_terms, LAMBDA term_ : IsSubstring(term_, term))

\* lines 143-148 for one segment: what it appends to generated_term_list
SegmentTerms(term) ==
    IF term \in Range(all_terms)
    THEN <<term>>
    ELSE SelectSeq(all_terms, LAMBDA term_ : IsSubstring(term_, term))

RECURSIVE TermList(_)
\* lines 141-148: the loop over generated_terms
TermList(generated_terms) ==
    IF generated_terms = <<>> THEN <<>>
    ELSE SegmentTerms(Head(generated_terms)) \o TermList(Tail(generated_terms))

\* line 140
GeneratedTerms(generated_text) == Split(Join(Split(generated_text, SPACE)), COMMA)

\* lines 140-150: the possible values of generated_term_id_list; list(set(..))
\* orders the distinct terms in an order the code does not fix
TermIdLists(generated_text) ==
    LET generated_term_list == TermList(GeneratedTerms(generated_text))
    IN  {[k \in 1..Len(o) |-> term_ids(o[k])] : o \in SetToSeqs(Range(generated_term_list))}

\* lines 151-152
Triples(dial_id, window_id, id_list) ==
    [k \in 1..Len(id_list) |-> <<dial_id, window_id, id_list[k]>>]

PInit ==
    /\ pp_pc = "loop"
    /\ pp_n = 0
    /\ predict = <<>>
    /\ generated_term_id_list = <<>>
    /\ predict_ids = <<>>

\* lines 134-152: one iteration of the loop over predicts
PostProcessIter ==
    /\ pp_pc = "loop"
    /\ pp_n < MaxPredicts
    /\ \E p \in Predicts :
        \E ids \in TermIdLists(p[1]) :
            /\ predict' = p
            /\ generated_term_id_list' = ids
            /\ predict_ids' = predict_ids \o Triples(p[2], p[3], ids)
    /\ pp_n' = pp_n + 1
    /\ UNCHANGED pp_pc
    /\ UNCHANGED <<gvars, mvars>>

\* line 153: predicts is exhausted
PostProcessReturn ==
    /\ pp_pc = "loop"
    /\ pp_pc' = "returned"
    /\ UNCHANGED <<pp_n, predict, generated_term_id_list, predict_ids>>
    /\ UNCHANGED <<gvars, mvars>>

-----------------------------------------------------------------------------
(* main and ModelTrainer.validate *)

\* examples in the dev dataset
MaxExamples == 2

\* line 201: range(0, 4)
NumIterations == 4

Procs == 0..(NumWorkers - 1)

\* the examples of the dev set: (generated text of the model, dial_id, window_id, term_id)
ExamplePool == { <<<<"a">>, 1, 3, 0>>, <<<<"a", "b">>, 2, 3, 0>> }

NoFile == [exists |-> FALSE, content |-> <<>>]

\* utils.sampler.SequentialDistributedSampler(dataset, num_replicas, rank): the
\* indices 0..n-1, padded by wrapping around to a multiple of num_replicas,
\* cut into num_replicas consecutive shares (1-based positions in dataset)
SequentialDistributedSampler(n, num_replicas, rank) ==
    LET num_samples == (n + num_replicas - 1) \div num_replicas
    IN  [k \in 1..num_samples |-> ((rank * num_samples + k - 1) % n) + 1]

\* torch.utils.data.SequentialSampler(dataset)
SequentialSampler(n) == [k \in 1..n |-> k]

\* lines 77-84
EvalSampler(p) ==
    IF m_dist
    THEN SequentialDistributedSampler(Len(dataset), m_world, p)
    ELSE SequentialSampler(Len(dataset))

\* lines 105-127: all_results of process p
Validate(p) ==
    LET idx == EvalSampler(p)
    IN  [k \in 1..Len(idx) |-> dataset[idx[k]]]

RECURSIVE PostProcessResults(_)
\* post_process(predicts): every list it can return
PostProcessResults(predicts) ==
    IF predicts = <<>> THEN {<<>>}
    ELSE LET p == Head(predicts)
         IN  {Triples(p[2], p[3], ids) \o rest :
                 ids \in TermIdLists(p[1]), rest \in PostProcessResults(Tail(predicts))}

MInit ==
    /\ m_dist \in BOOLEAN
    /\ m_world \in (IF m_dist THEN 1..NumWorkers ELSE {1})
    /\ dataset \in SeqsUpTo(ExamplePool, MaxExamples)
    /\ m_pc = [p \in Procs |-> IF p < m_world THEN "validate" ELSE "none"]
    /\ m_i = [p \in Procs |-> 0]
    /\ m_predicts = [p \in Procs |-> <<>>]
    /\ m_ids = [p \in Procs |-> <<>>]
    /\ files = [i \in 0..(NumIterations - 1) |-> NoFile]

\* lines 204-205: trainer.validate() returns the results of the process's own
\* share; nothing in validate or main gathers the other processes' results
MainValidate(p) ==
    /\ m_pc[p] = "validate"
    /\ m_predicts' = [m_predicts EXCEPT ![p] = Validate(p)]
    /\ m_pc' = [m_pc EXCEPT ![p] = "post_process"]
    /\ UNCHANGED <<m_world, m_dist, dataset, m_i, m_ids, files>>
    /\ UNCHANGED <<gvars, pvars>>

\* lines 112-114: with args.local_rank != -1 the first batch enters
\* self.model.no_sync(), a method of the DistributedDataParallel wrapper, while
\* lines 61-71 keep the model as loaded. Whether the loaded model offers
\* no_sync is decided by the libraries, so both outcomes are kept: the call
\* works (MainValidate) or raises AttributeError and ends the process
MainValidateRaises(p) ==
    /\ m_pc[p] = "validate"
    /\ m_dist
    /\ Validate(p) # <<>>
    /\ m_pc' = [m_pc EXCEPT ![p] = "AttributeError"]
    /\ UNCHANGED <<m_world, m_dist, dataset, m_i, m_predicts, m_ids, files>>
    /\ UNCHANGED <<gvars, pvars>>

\* line 208
MainPostProcess(p) ==
    /\ m_pc[p] = "post_process"
    /\ \E out \in PostProcessResults(m_predicts[p]) :
        m_ids' = [m_ids EXCEPT ![p] = out]
    /\ m_pc' = [m_pc EXCEPT ![p] = "write"]
    /\ UNCHANGED <<m_world, m_dist, dataset, m_i, m_predicts, files>>
    /\ UNCHANGED <<gvars, pvars>>

\* lines 209-211 and the loop's step: write_json(data=predict_ids, path=output_path)
\* replaces the file's content; the path depends on i only, never on the rank
MainWrite(p) ==
    /\ m_pc[p] = "write"
    /\ files' = [files EXCEPT ![m_i[p]] = [exists |-> TRUE, content |-> m_ids[p]]]
    /\ m_i' = [m_i EXCEPT ![p] = m_i[p] + 1]
    /\ m_pc' = [m_pc EXCEPT ![p] =
                  IF m_i[p] + 1 < NumIterations THEN "validate" ELSE "done"]
    /\ UNCHANGED <<m_world, m_dist, dataset, m_predicts, m_ids>>
    /\ UNCHANGED <<gvars, pvars>>

-----------------------------------------------------------------------------
(* Specifications *)

\* the parts a specification does not exercise stay in these states
GIdle == GInit
PIdle == PInit
MIdle ==
    /\ m_dist = FALSE
    /\ m_world = 1
    /\ dataset = <<>>
    /\ m_pc = [p \in Procs |-> "none"]
    /\ m_i = [p \in Procs |-> 0]
    /\ m_predicts = [p \in Procs |-> <<>>]
    /\ m_ids = [p \in Procs |-> <<>>]
    /\ files = [i \in 0..(NumIterations - 1) |-> NoFile]

Init == GInit /\ PIdle /\ MIdle

Next ==
    \/ Call
    \/ \E r \in Ranks : Pack(r)
    \/ AllReduce
    \/ \E r \in Ranks : Unpack(r)

Spec == Init /\ [][Next]_vars

InitPP == GIdle /\ PInit /\ MIdle

NextPP ==
    \/ PostProcessIter
    \/ PostProcessReturn

SpecPP == InitPP /\ [][NextPP]_vars

InitMain == GIdle /\ PIdle /\ MInit

NextMain ==
    \/ \E p \in Procs : MainValidate(p)
    \/ \E p \in Procs : MainValidateRaises(p)
    \/ \E p \in Procs : MainPostProcess(p)
    \/ \E p \in Procs : MainWrite(p)

SpecMain == InitMain /\ [][NextMain]_vars

-----------------------------------------------------------------------------
(* Claims about all_gather_list, checked under Spec *)

\* the pickled length of worker r's data plus the size bytes is at most max_size
Fits(r) == Len(PickleDumps(data[r])) + SIZE_STORAGE_BYTES <= max_size

\* C1: when all workers call all_gather_list together with the same max_size
\* and every worker's pickled data plus the 4 size bytes fits in max_size, no
\* worker raises, the collective can complete (all buffers have one length),
\* and every worker that returned holds the list of exactly NumWorkers
\* elements whose element i is the data passed by rank i.
C1_AllGatherReturnsEveryRanksData ==
    ((\A q \in Ranks : pc[q] # "idle") /\ \A q \in Ranks : Fits(q)) =>
        /\ \A r \in Ranks : pc[r] \in {"called", "all_reduce", "reduced", "returned"}
        /\ \A r, q \in Ranks :
            (pc[r] = "all_reduce" /\ pc[q] = "all_reduce") => Len(buffer[r]) = Len(buffer[q])
        /\ \A r \in Ranks :
            pc[r] = "returned" =>
                /\ Len(result[r]) = NumWorkers
                /\ \A i \in Ranks : result[r][i + 1] = data[i]

\* C1 witness: a later round, served from cached buffers larger than this
\* round needs, in which every worker returned and two ranks passed different data
C1_Witness ==
    /\ \A r \in Ranks : pc[r] = "returned" /\ Len(result[r]) = NumWorkers
    /\ data[0] # data[1]
    /\ Len(buffer[0]) > max_size * NumWorkers

\* C3: a call ends in ValueError exactly when the pickled length plus the 4
\* size bytes exceeds max_size (a length of exactly max_size - 4 is accepted),
\* and the step that raises is taken straight from the call's entry, before
\* the collective, and leaves the cached _buffer and _cpu_buffer as they were.
C3_ValueErrorIffTooLargeAndBuffersKept ==
    /\ [](\A r \in Ranks :
            pc[r] \notin {"idle", "called"} =>
                (pc[r] = "ValueError" <=>
                    Len(PickleDumps(data[r])) + SIZE_STORAGE_BYTES > max_size))
    /\ [][\A r \in Ranks :
            (pc'[r] = "ValueError" /\ pc[r] # "ValueError") =>
                /\ pc[r] = "called"
                /\ buffer'[r] = buffer[r]
                /\ cpu_buffer'[r] = cpu_buffer[r]]_vars

\* C3 witness: a worker raised ValueError while holding buffers cached by an
\* earlier round, and a peer whose pickled length is exactly max_size - 4 was
\* accepted and waits in the collective
C3_Witness ==
    \E r, q \in Ranks :
        /\ pc[r] = "ValueError"
        /\ buffer[r] # <<>>
        /\ cpu_buffer[r] # <<>>
        /\ pc[q] = "all_reduce"
        /\ Len(PickleDumps(data[q])) = max_size - SIZE_STORAGE_BYTES

\* C4: when every worker entered all_gather_list together, no worker waits in
\* all_reduce for a peer that never joins the collective: while a worker is
\* inside all_reduce, every peer is still on its way into it or inside it.
C4_NoWorkerWaitsForAbsentPeer ==
    \A r \in Ranks :
        pc[r] = "all_reduce" => \A q \in Ranks : pc[q] \in {"called", "all_reduce"}

-----------------------------------------------------------------------------
(* Claim about post_process, checked under SpecPP *)

Vocabulary == Range(all_terms)

VocabularyIds == {term_ids(t) : t \in Vocabulary}

\* the text without its spaces
Stripped(text) == SelectSeq(text, LAMBDA c : c # SPACE)

\* the maximal comma-free stretches of s
SegmentsOf(s) ==
    {SubSeq(s, a, b) : <<a, b>> \in
        {ab \in (1..(Len(s) + 1)) \X (0..Len(s)) :
            /\ ab[1] <= ab[2] + 1
            /\ (ab[1] = 1 \/ s[ab[1] - 1] = COMMA)
            /\ (ab[2] = Len(s) \/ s[ab[2] + 1] = COMMA)
            /\ \A k \in ab[1]..ab[2] : s[k] # COMMA}}

\* the vocabulary terms a text matches
MatchedTerms(text) ==
    {t \in Vocabulary :
        \E seg \in SegmentsOf(Stripped(text)) :
            IF seg \in Vocabulary THEN t = seg ELSE IsSubstring(t, seg)}

MatchedIds(text) == {term_ids(t) : t \in MatchedTerms(text)}

\* C2: for the prediction a loop iteration handled, the term ids it emitted
\* are exactly the ids of the vocabulary terms the text matches (a segment
\* that is a vocabulary term gives only that term, any other segment every
\* vocabulary term inside it), they are emitted as the triples
\* [dial_id, window_id, term_id] at the end of predict_ids, a text that
\* matches nothing emits nothing, and no id outside the vocabulary is emitted.
C2_PostProcessEmitsMatchedIds ==
    /\ \A k \in 1..Len(predict_ids) : predict_ids[k][3] \in VocabularyIds
    /\ pp_n > 0 =>
        LET n == Len(generated_term_id_list)
            m == Len(predict_ids)
        IN  /\ Range(generated_term_id_list) = MatchedIds(predict[1])
            /\ n = Cardinality(MatchedIds(predict[1]))
            /\ m >= n
            /\ \A k \in 1..n :
                predict_ids[m - n + k] = <<predict[2], predict[3], generated_term_id_list[k]>>

\* C2 witness: a text whose only segment holds two vocabulary terms, followed
\* by a text that becomes a vocabulary term once its space is removed
C2_Witness ==
    /\ pp_n = 2
    /\ predict = <<<<"a", SPACE, "b">>, 2, 3, 0>>
    /\ predict_ids = << <<1, 3, 12>>, <<1, 3, 11>>, <<2, 3, 12>> >>

-----------------------------------------------------------------------------
(* Claim about main, checked under SpecMain *)

\* the triples post_process owes to one example
OwedTriples(ex) == {<<ex[2], ex[3], id>> : id \in MatchedIds(ex[1])}

====
